---------------------------- MODULE Spec2Model ----------------------------
(***************************************************************************)
(* GradCompass: the visa-interview session protocol.                       *)
(*                                                                         *)
(*   api/app/services/interview_service.py   VisaInterviewService          *)
(*   api/app/routers/interview.py            start endpoint, websocket     *)
(*   api/app/models/interview.py             InterviewSession / Message    *)
(*                                                                         *)
(* Texts are sequences of one-character strings, so that str.strip,        *)
(* str.lower and str.startswith are computed and not assumed.              *)
(***************************************************************************)
EXTENDS Integers, Sequences, FiniteSets, TLC

VARIABLES
    state,          \* SpecService: the turn-state dict held by the caller of the service
    user_profile,   \* VisaInterviewService.user_profile is set (TRUE) or None (FALSE)
    last,           \* record of the most recent service call (observation only)
    db,             \* the committed interview_sessions row, None before it is created
    log,            \* the committed interview_messages rows of the session, in order
    conn,           \* "closed" or "open": a websocket handler is in its message loop
    session,        \* the handler's InterviewSession object (its attributes in memory)
    current_state,  \* the handler's local current_state (interview.py:268)
    reply,          \* the frames sent since the last inbound frame was read
    inbound,        \* the last inbound frame read (observation only)
    starts,         \* start_interview frames read so far
    answers,        \* user_response frames with an answer read so far
    faults,         \* websocket turns so far in which a generator call was set to fail
    peers,          \* SpecPeers: the handlers of the connections open on one session id
    retry,          \* SpecRetry: the locals of one verify_session_with_retry call
    db_session,     \* the handler's AsyncSession: "none", "open" or "closed"
    active_connections,  \* manager.active_connections: session id -> the registered handler
    tasks,          \* SpecRegistry: the handlers that use the connection manager
    request         \* SpecGate: the request the start endpoint handled last

svars == <<state, user_profile, last>>
hvars == <<db, log, conn, session, current_state, reply, inbound, starts, answers, faults,
           peers, retry, db_session, active_connections, tasks, request>>
vars == <<state, user_profile, last, db, log, conn, session, current_state, reply,
          inbound, starts, answers, faults, peers, retry, db_session, active_connections, tasks,
          request>>

---------------------------------------------------------------------------
(* Bounds of the model *)

\* longest transcript the service driver builds
MaxTurns == 5
\* start_interview frames a client sends to one session
MaxStarts == 2
\* answers (user_response frames that are not blank) a client sends to one session
MaxAnswers == 6
\* websocket turns of one session in which a generator call fails
MaxFaults == 1
\* answers one of two concurrent connections sends
MaxPeerAnswers == 2
\* start_interview frames one of two concurrent connections sends
MaxPeerStarts == 1
\* largest max_retries verify_session_with_retry is called with
MaxRetries == 4
\* answers a client that also sends malformed texts gives
MaxFrameAnswers == 3

(* Program constants *)

\* interview_service.py:60  "if len(state["transcript"]) >= 5"
HardLimit == 5
\* interview_service.py:64  "if len(state["transcript"]) < 3"
MinQuestions == 3
\* interview.py:48  "max_retries: int = 3"
DefaultRetries == 3
\* interview.py:48  "delay: float = 0.5", in microseconds
BaseDelay == 500000
\* interview.py:290  "timeout=300", in seconds
IdleWindow == 300
\* interview.py:241  "websocket.close(code=4004, ...)"
NotFoundCode == 4004

---------------------------------------------------------------------------
(* Texts *)

Whitespace == {" ", "\n", "\t"}

\* str.strip left out: the text as it came
unstripped(s) == s

\* str.lower on the characters that occur in the model
LowerChar(c) ==
    CASE c = "Y" -> "y"
      [] c = "E" -> "e"
      [] c = "S" -> "s"
      [] c = "N" -> "n"
      [] c = "O" -> "o"
      [] c = "A" -> "a"
      [] c = "Q" -> "q"
      [] OTHER -> c

lower(s) == [i \in DOMAIN s |-> LowerChar(s[i])]

RECURSIVE lstrip(_)
lstrip(s) ==
    IF s # <<>> /\ Head(s) \in Whitespace THEN lstrip(Tail(s)) ELSE s

RECURSIVE rstrip(_)
rstrip(s) ==
    IF s # <<>> /\ s[Len(s)] \in Whitespace THEN rstrip(SubSeq(s, 1, Len(s) - 1)) ELSE s

strip(s) == rstrip(lstrip(s))

startswith(s, prefix) ==
    /\ Len(s) >= Len(prefix)
    /\ SubSeq(s, 1, Len(prefix)) = prefix

EmptyText == <<>>

---------------------------------------------------------------------------
(* The text-generation capability: what self.llm.invoke gives back within  *)
(* one service call.  GenError stands for a raised exception.              *)

GenError == <<"!", "e", "r", "r">>

\* raw completions for a question prompt (stripped by _generate_question)
RawQuestions == { <<"Q", "1">>, <<" ", "Q", "2", "\n">> }

\* completions for the final-decision prompt
Decisions == { <<"A", "P", "P", "R">>, <<"R", "E", "J">> }

\* completion for a summary prompt
SummaryText == <<"s", "u", "m">>

\* completions for the YES/NO prompt
VerdictTexts ==
    { <<"Y", "E", "S">>,
      <<" ", "y", "e", "s", ".", "\n">>,
      <<"N", "O">>,
      <<>>,
      <<"m", "a", "y", "b", "e", " ", "y", "e", "s">> }

\* one outcome for every llm.invoke a service call can make
Gens ==
    [ summary  : {SummaryText, GenError},
      verdict  : VerdictTexts \cup {GenError},
      final    : Decisions \cup {GenError},
      question : RawQuestions \cup {GenError} ]

\* start_interview makes one call, for the first question
StartGens == { gen \in Gens : /\ gen.summary = SummaryText
                              /\ gen.verdict = EmptyText
                              /\ gen.final = GenError }

\* answers the client may give
Answers == { <<"A", "1">> }

---------------------------------------------------------------------------
(* Optional values: <<>> is None, <<v>> is v *)

None == <<>>
Some(v) == <<v>>

\* the Python dict {} (no keys)
EmptyDict == [k \in {} |-> k]

---------------------------------------------------------------------------
(* VisaInterviewService *)

AIMessage(content) == [kind |-> "AIMessage", content |-> content]
HumanMessage(content) == [kind |-> "HumanMessage", content |-> content]

_serialize_message(message) ==
    IF message.kind = "AIMessage" THEN [type |-> "ai", content |-> message.content]
    ELSE IF message.kind = "HumanMessage" THEN [type |-> "human", content |-> message.content]
    ELSE [type |-> "unknown", content |-> message.content]

\* _deserialize_message with every branch the fallback of line 174
_deserialize_message_all_human(message_dict) == HumanMessage(message_dict.content)

_deserialize_message(message_dict) ==
    IF message_dict.type = "ai" THEN AIMessage(message_dict.content)
    ELSE IF message_dict.type = "human" THEN HumanMessage(message_dict.content)
    ELSE HumanMessage(message_dict.content)

\* the result of a service step: what it returned or that it raised, and the
\* llm.invoke calls it made, in order
Ok(value, calls) == [raised |-> FALSE, value |-> value, calls |-> calls]
Raise(calls) == [raised |-> TRUE, value |-> EmptyText, calls |-> calls]

\* _generate_summary: no call on an empty transcript
_generate_summary(st, gen) ==
    IF st.transcript = <<>> THEN Ok(SummaryText, <<>>)
    ELSE IF gen.summary = GenError THEN Raise(<<"summary">>)
    ELSE Ok(gen.summary, <<"summary">>)

\* _generate_question with a failed completion taken for the question
_generate_question_unchecked(st, profile_set, gen) ==
    IF ~profile_set THEN Raise(<<>>)
    ELSE Ok(strip(gen.question), <<"question">>)

\* _generate_question: _build_college_info reads self.user_profile.target_degree,
\* an AttributeError while user_profile is None
_generate_question(st, profile_set, gen) ==
    IF ~profile_set THEN Raise(<<>>)
    ELSE IF gen.question = GenError THEN Raise(<<"question">>)
    ELSE Ok(strip(gen.question), <<"question">>)

\* _should_continue_interview without the hard limit of line 60
_should_continue_interview_no_ceiling(st, gen) ==
    IF Len(st.transcript) < MinQuestions THEN Ok(TRUE, <<>>)
    ELSE
        LET summary == _generate_summary(st, gen) IN
        IF summary.raised THEN Raise(summary.calls)
        ELSE IF gen.verdict = GenError THEN Ok(TRUE, summary.calls \o <<"verdict">>)
        ELSE Ok(~startswith(lower(strip(gen.verdict)), <<"y", "e", "s">>),
                summary.calls \o <<"verdict">>)

\* _should_continue_interview without the minimum of line 64
_should_continue_interview_no_floor(st, gen) ==
    IF Len(st.transcript) >= HardLimit THEN Ok(FALSE, <<>>)
    ELSE
        LET summary == _generate_summary(st, gen) IN
        IF summary.raised THEN Raise(summary.calls)
        ELSE IF gen.verdict = GenError THEN Ok(TRUE, summary.calls \o <<"verdict">>)
        ELSE Ok(~startswith(lower(strip(gen.verdict)), <<"y", "e", "s">>),
                summary.calls \o <<"verdict">>)

\* _should_continue_interview with "return False" in the except branch of line 82
_should_continue_interview_fail_closed(st, gen) ==
    IF Len(st.transcript) >= HardLimit THEN Ok(FALSE, <<>>)
    ELSE IF Len(st.transcript) < MinQuestions THEN Ok(TRUE, <<>>)
    ELSE
        LET summary == _generate_summary(st, gen) IN
        IF summary.raised THEN Raise(summary.calls)
        ELSE IF gen.verdict = GenError THEN Ok(FALSE, summary.calls \o <<"verdict">>)
        ELSE Ok(~startswith(lower(strip(gen.verdict)), <<"y", "e", "s">>),
                summary.calls \o <<"verdict">>)

\* _should_continue_interview without .strip().lower() in line 78
_should_continue_interview_raw_verdict(st, gen) ==
    IF Len(st.transcript) >= HardLimit THEN Ok(FALSE, <<>>)
    ELSE IF Len(st.transcript) < MinQuestions THEN Ok(TRUE, <<>>)
    ELSE
        LET summary == _generate_summary(st, gen) IN
        IF summary.raised THEN Raise(summary.calls)
        ELSE IF gen.verdict = GenError THEN Ok(TRUE, summary.calls \o <<"verdict">>)
        ELSE Ok(~startswith(gen.verdict, <<"y", "e", "s">>),
                summary.calls \o <<"verdict">>)

_should_continue_interview(st, gen) ==
    IF Len(st.transcript) >= HardLimit THEN Ok(FALSE, <<>>)
    ELSE IF Len(st.transcript) < MinQuestions THEN Ok(TRUE, <<>>)
    ELSE
        LET summary == _generate_summary(st, gen) IN
        IF summary.raised THEN Raise(summary.calls)
        ELSE IF gen.verdict = GenError THEN Ok(TRUE, summary.calls \o <<"verdict">>)
        ELSE Ok(~startswith(lower(strip(gen.verdict)), <<"y", "e", "s">>),
                summary.calls \o <<"verdict">>)

_generate_final_decision(st, gen) ==
    LET summary == _generate_summary(st, gen) IN
    IF summary.raised THEN Raise(summary.calls)
    ELSE IF gen.final = GenError THEN Raise(summary.calls \o <<"final">>)
    ELSE Ok(gen.final, summary.calls \o <<"final">>)

\* what a call of the service gives its caller: the dict it returned (ret) or
\* an exception (raised), the state dict as the call left it (the caller's
\* dict is changed in place), and the continuation check's answer
Outcome(raised, st, ret, check, calls) ==
    [raised |-> raised, state |-> st, ret |-> ret, check |-> check, calls |-> calls]

NoReturn == [question |-> EmptyText, done |-> FALSE, is_complete |-> FALSE]

initial_state ==
    [ messages |-> <<>>, transcript |-> <<>>, current_question |-> EmptyText,
      summary |-> EmptyText, outcome |-> EmptyText, done |-> FALSE ]

\* start_interview without line 195: the question is returned but not kept
start_interview_question_not_kept(gen) ==
    LET question == _generate_question(initial_state, TRUE, gen) IN
    IF question.raised
    THEN Outcome(TRUE, EmptyDict, NoReturn, "none", question.calls)
    ELSE Outcome(FALSE,
                 [initial_state EXCEPT
                    !.messages = Append(@, _serialize_message(AIMessage(question.value)))],
                 [question |-> question.value, done |-> FALSE, is_complete |-> FALSE],
                 "none", question.calls)

\* start_interview(user_profile, work_experiences); self.user_profile is set
\* before anything else
start_interview(gen) ==
    LET question == _generate_question(initial_state, TRUE, gen) IN
    IF question.raised
    THEN Outcome(TRUE, EmptyDict, NoReturn, "none", question.calls)
    ELSE Outcome(FALSE,
                 [initial_state EXCEPT
                    !.current_question = question.value,
                    !.messages = Append(@, _serialize_message(AIMessage(question.value)))],
                 [question |-> question.value, done |-> FALSE, is_complete |-> FALSE],
                 "none", question.calls)

\* the VisaInterviewState process_response builds from the dict it was handed
\* (every key is present in the dicts the service makes, so .get's defaults
\* are not used)
state_for_check(state_dict) ==
    [ messages |-> [i \in DOMAIN state_dict.messages |->
                       _deserialize_message(state_dict.messages[i])],
      transcript |-> state_dict.transcript,
      current_question |-> state_dict.current_question,
      summary |-> state_dict.summary,
      outcome |-> state_dict.outcome,
      done |-> state_dict.done ]

process_response(user_response, state_dict, profile_set, gen) ==
    IF "transcript" \notin DOMAIN state_dict
    THEN Outcome(TRUE, state_dict, NoReturn, "none", <<>>)    \* KeyError
    ELSE
    LET appended ==
            [state_dict EXCEPT
               !.transcript = Append(@, [q |-> state_dict.current_question,
                                         a |-> user_response]),
               !.messages = Append(@, _serialize_message(HumanMessage(user_response)))]
        should_continue == _should_continue_interview(state_for_check(appended), gen)
    IN
    IF should_continue.raised
    THEN Outcome(TRUE, appended, NoReturn, "raised", should_continue.calls)
    ELSE IF ~should_continue.value
    THEN
        LET final_decision == _generate_final_decision(state_for_check(appended), gen) IN
        IF final_decision.raised
        THEN Outcome(TRUE, appended, NoReturn, "stop",
                     should_continue.calls \o final_decision.calls)
        ELSE Outcome(FALSE,
                     [appended EXCEPT !.outcome = final_decision.value, !.done = TRUE],
                     [question |-> final_decision.value, done |-> TRUE, is_complete |-> TRUE],
                     "stop", should_continue.calls \o final_decision.calls)
    ELSE
        LET next_question == _generate_question(state_for_check(appended), profile_set, gen) IN
        IF next_question.raised
        THEN Outcome(TRUE, appended, NoReturn, "continue",
                     should_continue.calls \o next_question.calls)
        ELSE Outcome(FALSE,
                     [appended EXCEPT
                        !.current_question = next_question.value,
                        !.messages = Append(@, _serialize_message(AIMessage(next_question.value)))],
                     [question |-> next_question.value, done |-> FALSE, is_complete |-> FALSE],
                     "continue", should_continue.calls \o next_question.calls)

---------------------------------------------------------------------------
(* Profile requirements (utils/profile.py) *)

\* the agent types a client may ask for; "other" is none the table knows
AgentTypes ==
    { "university_matcher", "document_helper", "exam_planner", "finance_planner",
      "visa_assistant", "other" }

\* the columns of UserProfile the requirement tables read: None or a value
Profiles ==
    [ gpa : {None, Some("3.5")},
      target_field : {None, Some("CS")},
      preferred_countries : {None, Some("US")},
      target_degree : {None, Some("MS")},
      budget_range : {None, Some("low")},
      gre_score : {None, Some(320)},
      toefl_score : {None, Some(0), Some(100)},
      ielts_score : {None, Some(7)} ]

\* profile.work_experiences or []
WorkExperiences == { <<>>, <<"job">> }

get_profile_requirements_for_agent(agent_type) ==
    CASE agent_type = "university_matcher" ->
            <<"gpa", "target_field", "preferred_countries", "target_degree">>
      [] agent_type = "document_helper" ->
            <<"work_experiences", "target_field", "target_degree">>
      [] agent_type = "exam_planner" -> <<"gre_score", "toefl_score", "ielts_score">>
      [] agent_type = "finance_planner" -> <<"budget_range", "preferred_countries">>
      [] agent_type = "visa_assistant" -> <<"preferred_countries", "target_degree">>
      [] OTHER -> <<>>

\* field.replace('_', ' ').title()
Title(field) ==
    CASE field = "gpa" -> "Gpa"
      [] field = "target_field" -> "Target Field"
      [] field = "preferred_countries" -> "Preferred Countries"
      [] field = "target_degree" -> "Target Degree"
      [] field = "budget_range" -> "Budget Range"
      [] OTHER -> field

\* the truth value Python gives an optional number
Truthy(value) == value # None /\ value[1] # 0

\* the for loop of check_agent_profile_requirements over the fields still to
\* be looked at; missing is missing_requirements so far
RECURSIVE check_fields(_, _, _, _, _)
check_fields(required_fields, profile, work_experiences, agent_type, missing) ==
    IF required_fields = <<>> THEN missing
    ELSE
    LET field == Head(required_fields)
        rest == Tail(required_fields)
    IN
    IF field = "work_experiences"
    THEN check_fields(rest, profile, work_experiences, agent_type,
                      IF Len(work_experiences) = 0
                      THEN Append(missing, "At least one work experience")
                      ELSE missing)
    ELSE IF field \in {"gre_score", "toefl_score", "ielts_score"}
    THEN IF agent_type = "exam_planner"
         THEN IF ~(Truthy(profile.gre_score) \/ Truthy(profile.toefl_score)
                                             \/ Truthy(profile.ielts_score))
              THEN Append(missing, "At least one test score")       \* break
              ELSE missing                                          \* break
         ELSE check_fields(rest, profile, work_experiences, agent_type, missing)
    ELSE check_fields(rest, profile, work_experiences, agent_type,
                      IF profile[field] = None THEN Append(missing, Title(field))
                      ELSE missing)

check_agent_profile_requirements(profile, work_experiences, agent_type) ==
    LET missing_requirements ==
            check_fields(get_profile_requirements_for_agent(agent_type), profile,
                         work_experiences, agent_type, <<>>)
    IN  [ requirements_met |-> Len(missing_requirements) = 0,
          missing_requirements |-> missing_requirements ]

\* no request has been handled by the start endpoint
NoRequest ==
    [ profile |-> None, work_experiences |-> <<>>, agent_type |-> "none", status_code |-> 0 ]

---------------------------------------------------------------------------
(* The store and the websocket protocol (routers/interview.py) *)

Row(status, session_state, final_outcome) ==
    [status |-> status, session_state |-> session_state, final_outcome |-> final_outcome]

Message(message_type, content) == [message_type |-> message_type, content |-> content]

\* a websocket text frame holding the JSON object {"type": .., "content": ..}
Frame(type, content) == [type |-> type, content |-> content, form |-> "object"]

\* an inbound text that is not such an object.  form says what it is:
\*   "not_json"          text json.loads rejects
\*   "not_object"        JSON that is no object (an array, a number, null)
\*   "no_type"           an object without "type": message_data.get('type') is None
\*   "no_content"        an object without "content": .get('content', '') is ''
\*   "content_not_text"  an object whose "content" is a number (shown as text here)
Malformed(form, type, content) == [type |-> type, content |-> content, form |-> form]

\* asyncio.wait_for gave up after the client was silent for waited seconds
Silence(waited) ==
    [type |-> "none", content |-> EmptyText, form |-> "silence", waited |-> waited]

NoFrame == Frame("none", EmptyText)

\* save_message with the commit lost: the row never reaches the table
save_message_not_committed(messages, message_type, content) ==
    messages

\* save_message: db.add(message); await db.commit()
save_message(messages, message_type, content) ==
    Append(messages, Message(message_type, content))

WelcomeText == <<"W", "e", "l", "c", "o", "m", "e">>
ReadyText == <<"R", "e", "a", "d", "y">>
TimeoutText == <<"T", "i", "m", "e", "o", "u", "t">>
NotFoundText == <<"N", "o", "t", " ", "f", "o", "u", "n", "d">>
ProvideText == <<"P", "l", "e", "a", "s", "e">>
FailedText == <<"F", "a", "i", "l", "e", "d">>
InvalidFormatText == <<"I", "n", "v", "a", "l", "i", "d">>
UnexpectedText == <<"U", "n", "e", "x", "p", "e", "c", "t", "e", "d">>
ProfileNotFoundText == <<"N", "o", " ", "p", "r", "o", "f", "i", "l", "e">>

\* the unknown-type notice without the type in it
UnknownTypeText_generic(message_type) == <<"U", "n", "k", "n", "o", "w", "n">>

\* f"Unknown message type: {message_type}. Supported types: ..."
UnknownTypeText(message_type) == <<"U", "n", "k", "n", "o", "w", "n", ":", message_type>>
PongText == <<"A", "c", "t", "i", "v", "e">>

\* the inbound frames a client sends
Inbound ==
    { Frame("start_interview", EmptyText),
      Frame("user_response", <<"A", "1">>),
      Frame("user_response", <<" ", " ">>),
      Frame("user_response", EmptyText),
      Frame("ping", EmptyText),
      Frame("bye", EmptyText) }

\* the inbound texts that are not well-formed messages
MalformedInbound ==
    { Malformed("not_json", "None", EmptyText),
      Malformed("not_object", "None", EmptyText),
      Malformed("no_type", "None", EmptyText),
      Malformed("no_content", "user_response", EmptyText),
      Malformed("content_not_text", "user_response", <<"4", "2">>) }

\* the inbound texts whose handling raises outside the inner try blocks:
\* message_data.get on a non-object (line 305), content.strip() on a
\* non-text content (line 359)
Fatal(frame) ==
    \/ frame.form = "not_object"
    \/ frame.form = "content_not_text" /\ frame.type = "user_response"

\* the lengths of a client's silence before its next frame, in seconds
Silences == {0, 299, 301}

\* wait_for with a timeout of 30 s
timed_out_early(waited) == waited >= 30

\* asyncio.wait_for(websocket.receive_text(), timeout=300) raises TimeoutError
timed_out(waited) == waited >= IdleWindow

\* a turn in which some generator call is set to fail
Faulty(gen) == GenError \in {gen.summary, gen.verdict, gen.final, gen.question}

\* generator outcomes offered to a websocket turn: every call succeeds, or
\* exactly one call fails (with the other outcomes such that it is reached)
HGens ==
    { gen \in Gens :
        /\ gen.question \in { <<" ", "Q", "2", "\n">>, GenError }
        /\ \/ /\ ~Faulty(gen)
              /\ gen.verdict \in { <<"Y", "E", "S">>, <<"N", "O">> }
           \/ /\ gen.summary = GenError
              /\ gen.verdict = <<"Y", "E", "S">>
              /\ gen.final = <<"R", "E", "J">>
              /\ gen.question # GenError
           \/ /\ gen.verdict = GenError
              /\ gen.summary # GenError
              /\ gen.final = <<"R", "E", "J">>
              /\ gen.question # GenError
           \/ /\ gen.final = GenError
              /\ gen.summary # GenError
              /\ gen.verdict = <<"Y", "E", "S">>
              /\ gen.question # GenError
           \/ /\ gen.question = GenError
              /\ gen.summary # GenError
              /\ gen.verdict = <<"N", "O">>
              /\ gen.final = <<"R", "E", "J">> }

\* interview_service.continue_interview(profile, state, content) and
\* interview_service.start_interview(profile), as the router calls them: the
\* service under src/ names its operations process_response(user_response,
\* current_state) and start_interview(user_profile, work_experiences) and
\* returns dicts.  The calls are bound to those operations with the profile
\* handed over, and response.content / .state / .is_complete read the keys
\* "question" / "state" / "is_complete".
continue_interview(profile, turn_state, content, gen) ==
    process_response(content, turn_state, TRUE, gen)

begin_interview(profile, gen) ==
    start_interview(gen)

---------------------------------------------------------------------------
(* SpecService: a caller that drives one VisaInterviewService directly *)

\* what is kept of the most recent call
NoCall ==
    [ op |-> "none", raised |-> FALSE, ret |-> NoReturn, check |-> "none",
      calls |-> <<>>, verdict |-> EmptyText, question_fails |-> FALSE,
      summary_fails |-> FALSE,
      pre |-> 0, was_done |-> FALSE ]

\* the transcript length and the done flag of a dict handed to the service
TranscriptLen(state_dict) ==
    IF "transcript" \in DOMAIN state_dict THEN Len(state_dict.transcript) ELSE 0

IsDone(state_dict) ==
    IF "done" \in DOMAIN state_dict THEN state_dict.done ELSE FALSE

Seen(op, out, gen, before) ==
    [ op |-> op, raised |-> out.raised, ret |-> out.ret, check |-> out.check,
      calls |-> out.calls,
      verdict |-> gen.verdict,             \* what the YES/NO prompt would be answered
      question_fails |-> (gen.question = GenError),  \* a question prompt would raise
      summary_fails |-> (gen.summary = GenError),    \* a summary prompt would raise
      pre |-> TranscriptLen(before),       \* transcript length before the call
      was_done |-> IsDone(before) ]        \* done flag before the call

\* the connections that may be open on the session id at the same time
Conns == {1, 2}

\* the locals of interview_websocket before the connection is accepted
PeerIdle ==
    [ pc |-> "closed", session |-> None, loaded |-> FALSE,
      response |-> NoReturn, answers |-> 0, starts |-> 0 ]

\* a time that never comes
Never == -1

\* delay *= 2 in place of line 67
next_delay_doubled(delay) == delay * 2

\* delay *= 1.5 (exact on the microsecond values that occur)
next_delay(delay) == (delay * 3) \div 2

\* the clock when asyncio.sleep is not awaited
slept_not_awaited(clock, delay) == clock

\* the clock after await asyncio.sleep(delay)
slept(clock, delay) == clock + delay

\* the locals of verify_session_with_retry before it is called
RetryIdle ==
    [ pc |-> "idle", max_retries |-> DefaultRetries, delay |-> BaseDelay, attempt |-> 0,
      clock |-> 0, visible_at |-> Never, hits |-> <<>>, waits |-> <<>>,
      result |-> "pending" ]

\* the handler tasks that register with the connection manager
Handlers == {1, 2, 3}

\* the session ids they are opened on
SessionIds == {1, 2}

\* a handler task that has not been started
TaskIdle == [pc |-> "idle", session_id |-> 0, frames |-> 0, late |-> FALSE]

HandlerIdle ==
    /\ peers = [c \in Conns |-> PeerIdle]
    /\ retry = RetryIdle
    /\ db_session = "none"
    /\ active_connections = EmptyDict
    /\ tasks = [h \in Handlers |-> TaskIdle]
    /\ request = NoRequest
    /\ db = None
    /\ log = <<>>
    /\ conn = "closed"
    /\ session = None
    /\ current_state = None
    /\ reply = <<>>
    /\ inbound = NoFrame
    /\ starts = 0
    /\ answers = 0
    /\ faults = 0

SvcInit ==
    /\ state = None
    /\ user_profile = FALSE
    /\ last = NoCall
    /\ HandlerIdle

\* result = await service.start_interview(profile, work_experiences)
SvcStartInterview ==
    /\ \E gen \in StartGens :
         \E out \in {start_interview(gen)} :
            /\ user_profile' = TRUE
            /\ state' = IF out.raised THEN state ELSE Some(out.state)
            /\ last' = Seen("start_interview", out, gen, EmptyDict)
    /\ UNCHANGED hvars

\* result = await service.process_response(answer, state)
SvcProcessResponse ==
    /\ state # None
    /\ Len(state[1].transcript) < MaxTurns
    /\ \E answer \in Answers, gen \in Gens :
         \E out \in {process_response(answer, state[1], user_profile, gen)} :
            /\ state' = Some(out.state)
            /\ last' = Seen("process_response", out, gen, state[1])
    /\ UNCHANGED <<user_profile, hvars>>

\* a new VisaInterviewService() takes over a stored state (as each websocket
\* connection does)
SvcNewService ==
    /\ state # None
    /\ user_profile
    /\ user_profile' = FALSE
    /\ last' = NoCall
    /\ UNCHANGED <<state, hvars>>

SvcNext ==
    \/ SvcStartInterview
    \/ SvcProcessResponse
    \/ SvcNewService

SpecService == SvcInit /\ [][SvcNext]_vars

---------------------------------------------------------------------------
(* Claims about the service, checked under SpecService *)

Range(seq) == { seq[i] : i \in DOMAIN seq }

\* the most recent call was process_response and left n entries in the transcript
Advanced(n) ==
    /\ last.op = "process_response"
    /\ last.pre + 1 = n
    /\ Len(state[1].transcript) = n

\* the texts the yes/no prompt can be answered with that, trimmed and with
\* case ignored, begin with "yes"
AffirmativeVerdicts == { <<"Y", "E", "S">>, <<" ", "y", "e", "s", ".", "\n">> }

\* C1 Turn bound: when process_response has appended the answer and the
\* transcript holds 5 or more entries, the continuation check answers stop
\* without a summary or verdict call, whatever the verdict would have been, and
\* the turn that returns has is_complete and done true and carries the final
\* decision, which is also the state's outcome.
C1_TurnBound ==
    \A n \in HardLimit .. MaxTurns + 1 :
        Advanced(n) =>
            /\ last.check = "stop"
            /\ "verdict" \notin Range(last.calls)
            /\ ~last.raised =>
                /\ last.ret.is_complete
                /\ last.ret.done
                /\ state[1].done
                /\ last.ret.question \in Decisions
                /\ state[1].outcome = last.ret.question

\* a turn at the ceiling terminated although the verdict would have been NO
C1_Witness ==
    /\ Advanced(HardLimit)
    /\ ~last.raised
    /\ last.ret.is_complete
    /\ last.verdict = <<"N", "O">>

\* C2 Floor bound: when process_response has appended the answer and the
\* transcript holds fewer than 3 entries, the continuation check answers
\* continue without a verdict call, the interview is not terminated, and the
\* turn that returns yields the next question, now the current question.
C2_FloorBound ==
    \A n \in 1 .. MinQuestions - 1 :
        Advanced(n) =>
            /\ last.check = "continue"
            /\ "verdict" \notin Range(last.calls)
            /\ "final" \notin Range(last.calls)
            /\ ~state[1].done
            /\ ~last.ret.is_complete
            /\ ~last.raised =>
                /\ last.ret.question \in { strip(q) : q \in RawQuestions }
                /\ state[1].current_question = last.ret.question

\* a turn under the floor went on although the verdict would have been YES
C2_Witness ==
    /\ Advanced(MinQuestions - 1)
    /\ ~last.raised
    /\ ~last.ret.is_complete
    /\ last.verdict = <<"Y", "E", "S">>

\* the yes/no call was made in the most recent turn and raised
VerdictCallRaised ==
    /\ "verdict" \in Range(last.calls)
    /\ last.verdict = GenError

\* C3 Fail-open verdict: at transcript length 3 or 4, when the yes/no call
\* raises, the continuation check answers continue: no final decision is asked
\* for, the turn does not set done or an outcome, and it goes on to the
\* next-question step (whose question, when it returns, is the new current
\* question).
C3_FailOpen ==
    \A n \in MinQuestions .. HardLimit - 1 :
        (Advanced(n) /\ VerdictCallRaised) =>
            /\ last.check = "continue"
            /\ "final" \notin Range(last.calls)
            /\ state[1].done = last.was_done
            /\ state[1].outcome \in Decisions => last.was_done
            /\ ~last.ret.is_complete
            /\ user_profile => last.calls = <<"summary", "verdict", "question">>
            /\ ~last.raised => state[1].current_question = last.ret.question

C3_Witness ==
    /\ Advanced(HardLimit - 1)
    /\ VerdictCallRaised
    /\ ~last.raised
    /\ ~state[1].done
    /\ last.ret.question \in { strip(q) : q \in RawQuestions }

\* C4 Verdict parsing: at transcript length 3 or 4, when the yes/no call
\* returns text, the continuation check answers stop exactly when the text,
\* trimmed and with case ignored, begins with "yes" ("YES", " yes.\n"); "NO",
\* the empty text and "maybe yes" mean continue.
C4_VerdictParsing ==
    \A n \in MinQuestions .. HardLimit - 1 :
        (Advanced(n) /\ "verdict" \in Range(last.calls) /\ last.verdict # GenError) =>
            /\ (last.check = "stop") <=> (last.verdict \in AffirmativeVerdicts)
            /\ (last.check = "continue") <=> (last.verdict \notin AffirmativeVerdicts)
            /\ ~last.raised => (last.ret.is_complete <=> last.verdict \in AffirmativeVerdicts)

\* "YES" in capitals stopped the interview at length 3
C4_Witness ==
    /\ Advanced(MinQuestions)
    /\ last.verdict = <<"Y", "E", "S">>
    /\ ~last.raised
    /\ last.ret.is_complete

---------------------------------------------------------------------------
(* Spec: the start endpoint and the websocket handlers of one session *)

Init ==
    /\ state = None
    /\ user_profile = FALSE
    /\ last = NoCall
    /\ HandlerIdle

\* line 98 with the test left out: every profile passes
requirements_gate_open(requirements_check) == TRUE

\* "if not requirements_check['requirements_met']: raise HTTPException(400)"
requirements_gate(requirements_check) == requirements_check.requirements_met

\* the store calls of the try block of start_interview_session, in order
CreateFaults ==
    { "none", "session_commit", "session_refresh", "message_commit", "message_refresh",
      "final_commit", "refetch" }

\* the try block of start_interview_session when the store call named by
\* fails raises ("none": no call raises).  What was committed before the call
\* stays; the except branch's rollback undoes only what is not yet committed
create_session(fails) ==
    IF fails = "session_commit"
    THEN UNCHANGED <<db, log>>
    ELSE IF fails \in {"session_refresh", "message_commit"}
    THEN /\ db' = Some(Row("active", None, None))
         /\ UNCHANGED log
    ELSE /\ db' = Some(Row("active", None, None))
         /\ log' = save_message(log, "system", WelcomeText)

\* the status the try block answers with (500 from the except branch)
create_status(fails) == IF fails = "none" THEN 200 ELSE 500

\* POST /interview/start for a user whose profile is profile (None: no
\* profile row) with these work experiences, asking for agent_type
start_endpoint(profile, work_experiences, agent_type) ==
    IF profile = None
    THEN UNCHANGED <<db, log>>
    ELSE IF ~requirements_gate(
                check_agent_profile_requirements(profile[1], work_experiences, agent_type))
    THEN UNCHANGED <<db, log>>
    ELSE create_session("none")

\* POST /interview/start
start_interview_session ==
    /\ db = None
    /\ \E profile \in {None} \cup { Some(p) : p \in Profiles },
          work_experiences \in WorkExperiences,
          agent_type \in AgentTypes :
         start_endpoint(profile, work_experiences, agent_type)
    /\ UNCHANGED <<state, user_profile, last, conn, session, current_state, reply,
                   inbound, starts, answers, faults, peers, retry, db_session,
                   active_connections, tasks, request>>

\* the finally block without db.close()
release_skipped(handle) == handle

\* finally: "if db: await db.close()"
release(handle) == IF handle = "none" THEN handle ELSE "closed"

\* websocket.close() with the default code
close_normal(frames, code) == Append(frames, Frame("close", 1000))

\* await websocket.close(code=code, ...)
close(frames, code) == Append(frames, Frame("close", code))

\* interview_websocket after verify_session_with_retry gave found (a row or None)
Resolved(found) ==
    IF found = None
    THEN /\ reply' = close(<<Frame("error", NotFoundText)>>, NotFoundCode)
         /\ db_session' = release("open")
         /\ UNCHANGED <<conn, session, current_state, user_profile>>
    ELSE /\ db_session' = "open"
         /\ session' = found
         /\ current_state' = found[1].session_state
         /\ user_profile' = FALSE
         /\ reply' = <<Frame("system", ReadyText)>>
         /\ conn' = "open"

\* interview_websocket up to the message loop (the store does not change
\* while verify_session_with_retry runs)
Connect ==
    /\ conn = "closed"
    /\ inbound' = NoFrame
    /\ last' = NoCall
    /\ \E profile_found \in BOOLEAN :
         IF db # None /\ ~profile_found
         THEN /\ reply' = close(<<Frame("error", ProfileNotFoundText)>>, NotFoundCode)
              /\ db_session' = release("open")
              /\ UNCHANGED <<conn, session, current_state, user_profile>>
         ELSE Resolved(db)
    /\ UNCHANGED <<state, db, log, starts, answers, faults, peers, retry,
                   active_connections, tasks, request>>

\* lines 385-387 with "session.final_outcome = ..." left out
complete_session_status_only(row, content) ==
    [row EXCEPT !.status = "completed"]

\* session.status = "completed"; session.final_outcome = response.content
complete_session(row, content) ==
    [row EXCEPT !.status = "completed", !.final_outcome = Some(content)]

\* the dict the handler's objects refer to after a call changed it in place
Aliased(turn_state, out) ==
    IF turn_state = None THEN None ELSE Some(out.state)

\* message_type == 'start_interview'
OnStartInterview(gen) ==
    \E out \in { IF current_state # None
                 THEN continue_interview("profile", current_state[1], EmptyText, gen)
                 ELSE begin_interview("profile", gen) } :
        /\ user_profile' = TRUE
        /\ last' = Seen(IF current_state # None THEN "process_response" ELSE "start_interview",
                        out, gen,
                        IF current_state # None THEN current_state[1] ELSE EmptyDict)
        /\ IF out.raised
           THEN /\ reply' = <<Frame("error", FailedText)>>
                /\ current_state' = Aliased(current_state, out)
                /\ session' = IF current_state # None
                              THEN Some([session[1] EXCEPT !.session_state = Some(out.state)])
                              ELSE session
                /\ UNCHANGED <<db, log>>
           ELSE /\ log' = save_message(log, "question", out.ret.question)
                /\ session' = Some([session[1] EXCEPT !.session_state = Some(out.state)])
                /\ db' = Some([db[1] EXCEPT !.session_state = Some(out.state)])
                /\ current_state' = Aliased(current_state, out)
                /\ reply' = <<Frame("question", out.ret.question)>>

\* "session.session_state or {}" with the stored state never used
StateOrEmpty_always_empty(row) == EmptyDict

\* what session.session_state or {} gives
StateOrEmpty(row) ==
    IF row.session_state = None THEN EmptyDict ELSE row.session_state[1]

\* message_type == 'user_response'
OnUserResponse(content, gen) ==
    IF strip(content) = EmptyText
    THEN /\ reply' = <<Frame("error", ProvideText)>>
         /\ last' = NoCall
         /\ UNCHANGED <<db, log, session, current_state, user_profile>>
    ELSE
    \E out \in { continue_interview("profile", StateOrEmpty(session[1]), content, gen) } :
        /\ user_profile' = TRUE
        /\ last' = Seen("process_response", out, gen, StateOrEmpty(session[1]))
        /\ IF out.raised
           THEN /\ log' = save_message(log, "response", content)
                /\ session' = Some([session[1] EXCEPT
                                      !.session_state = Aliased(session[1].session_state, out)])
                /\ current_state' = Aliased(current_state, out)
                /\ reply' = <<Frame("error", FailedText)>>
                /\ UNCHANGED db
           ELSE IF out.ret.is_complete
           THEN /\ log' = save_message(save_message(log, "response", content),
                                       "final_decision", out.ret.question)
                /\ session' = Some(complete_session(
                                     [session[1] EXCEPT !.session_state = Some(out.state)],
                                     out.ret.question))
                /\ db' = Some(complete_session(
                                [db[1] EXCEPT !.session_state = Some(out.state)],
                                out.ret.question))
                /\ current_state' = Aliased(current_state, out)
                /\ reply' = <<Frame("final_decision", out.ret.question)>>
           ELSE /\ log' = save_message(save_message(log, "response", content),
                                       "question", out.ret.question)
                /\ session' = Some([session[1] EXCEPT !.session_state = Some(out.state)])
                /\ db' = Some([db[1] EXCEPT !.session_state = Some(out.state)])
                /\ current_state' = Aliased(current_state, out)
                /\ reply' = <<Frame("question", out.ret.question)>>

\* the JSONDecodeError branch without its send_text
OnInvalidJson_silent ==
    /\ reply' = <<>>
    /\ last' = NoCall
    /\ UNCHANGED <<db, log, session, current_state, user_profile>>

\* except json.JSONDecodeError: error frame, continue
OnInvalidJson ==
    /\ reply' = <<Frame("error", InvalidFormatText)>>
    /\ last' = NoCall
    /\ UNCHANGED <<db, log, session, current_state, user_profile>>

\* a ping that is answered and also stored as a message
OnPing_logged ==
    /\ reply' = <<Frame("pong", PongText)>>
    /\ last' = NoCall
    /\ log' = save_message(log, "system", PongText)
    /\ UNCHANGED <<db, session, current_state, user_profile>>

\* message_type == 'ping'
OnPing ==
    /\ reply' = <<Frame("pong", PongText)>>
    /\ last' = NoCall
    /\ UNCHANGED <<db, log, session, current_state, user_profile>>

\* any other message_type
OnUnknown(message_type) ==
    /\ reply' = <<Frame("error", UnknownTypeText(message_type))>>
    /\ last' = NoCall
    /\ UNCHANGED <<db, log, session, current_state, user_profile>>

\* one pass of the message loop: a frame out of frames is read and handled
ReceiveFrom(frames) ==
    /\ conn = "open"
    /\ { waited \in Silences : ~timed_out(waited) } # {}
    /\ \E frame \in frames :
         /\ ~Fatal(frame)
         /\ inbound' = frame
         /\ \/ /\ frame.form = "not_json"
               /\ OnInvalidJson
               /\ UNCHANGED <<starts, answers, faults>>
            \/ /\ frame.form # "not_json"
               /\ frame.type = "start_interview"
               /\ starts < MaxStarts
               /\ \E gen \in HGens :
                    /\ Faulty(gen) => faults < MaxFaults
                    /\ OnStartInterview(gen)
                    /\ faults' = IF Faulty(gen) THEN faults + 1 ELSE faults
               /\ starts' = starts + 1
               /\ UNCHANGED answers
            \/ /\ frame.form # "not_json"
               /\ frame.type = "user_response"
               /\ strip(frame.content) # EmptyText
               /\ answers < MaxAnswers
               /\ \E gen \in HGens :
                    /\ Faulty(gen) => faults < MaxFaults
                    /\ OnUserResponse(frame.content, gen)
                    /\ faults' = IF Faulty(gen) THEN faults + 1 ELSE faults
               /\ answers' = answers + 1
               /\ UNCHANGED starts
            \/ /\ frame.form # "not_json"
               /\ frame.type = "user_response"
               /\ strip(frame.content) = EmptyText
               /\ OnUserResponse(frame.content, CHOOSE gen \in HGens : ~Faulty(gen))
               /\ UNCHANGED <<starts, answers, faults>>
            \/ /\ frame.form # "not_json"
               /\ frame.type = "ping"
               /\ OnPing
               /\ UNCHANGED <<starts, answers, faults>>
            \/ /\ frame.form # "not_json"
               /\ frame.type \notin {"start_interview", "user_response", "ping"}
               /\ OnUnknown(frame.type)
               /\ UNCHANGED <<starts, answers, faults>>
    /\ UNCHANGED <<state, conn, peers, retry, db_session, active_connections, tasks, request>>

\* one pass of the message loop for a client that sends well-formed messages
Receive == ReceiveFrom(Inbound)

\* the client disconnects: WebSocketDisconnect, break, finally
Disconnect ==
    /\ conn = "open"
    /\ conn' = "closed"
    /\ session' = None
    /\ current_state' = None
    /\ reply' = <<>>
    /\ inbound' = NoFrame
    /\ last' = NoCall
    /\ db_session' = release(db_session)
    /\ UNCHANGED <<state, user_profile, db, log, starts, answers, faults, peers, retry,
                   active_connections, tasks, request>>

\* asyncio.TimeoutError after 300 s without a frame: notice, break, finally
IdleTimeout ==
    /\ conn = "open"
    /\ \E waited \in Silences :
         /\ timed_out(waited)
         /\ inbound' = Silence(waited)
    /\ conn' = "closed"
    /\ session' = None
    /\ current_state' = None
    /\ reply' = <<Frame("system", TimeoutText)>>
    /\ last' = NoCall
    /\ db_session' = release(db_session)
    /\ UNCHANGED <<state, user_profile, db, log, starts, answers, faults, peers, retry,
                   active_connections, tasks, request>>

\* a frame whose handling raises outside the inner try blocks: the outer
\* "except Exception" sends an error frame and breaks out of the loop; finally
Crash ==
    /\ conn = "open"
    /\ { waited \in Silences : ~timed_out(waited) } # {}
    /\ \E frame \in MalformedInbound :
         /\ Fatal(frame)
         /\ inbound' = frame
    /\ conn' = "closed"
    /\ session' = None
    /\ current_state' = None
    /\ reply' = <<Frame("error", UnexpectedText)>>
    /\ last' = NoCall
    /\ db_session' = release(db_session)
    /\ UNCHANGED <<state, user_profile, db, log, starts, answers, faults, peers, retry,
                   active_connections, tasks, request>>

Next ==
    \/ start_interview_session
    \/ Connect
    \/ Receive
    \/ Disconnect
    \/ IdleTimeout

Spec == Init /\ [][Next]_vars

\* SpecFrames: the same session with a client that also sends texts that are
\* not well-formed messages, over the first turns of the interview
ReceiveAny ==
    /\ answers < MaxFrameAnswers
    /\ ReceiveFrom(Inbound \cup MalformedInbound)

FramesNext ==
    \/ start_interview_session
    \/ Connect
    \/ ReceiveAny
    \/ Crash
    \/ Disconnect
    \/ IdleTimeout

SpecFrames == Init /\ [][FramesNext]_vars

---------------------------------------------------------------------------
(* Claims about the store and the websocket protocol, checked under Spec *)

Count(messages, message_type) ==
    Cardinality({ i \in DOMAIN messages : messages[i].message_type = message_type })

\* the turn state in the committed row, None while there is none
Stored == IF db = None THEN None ELSE db[1].session_state

StoredTranscriptLen == IF Stored = None THEN 0 ELSE Len(Stored[1].transcript)

\* the frame just read is a user_response with an answer in it
AnswerRead ==
    /\ inbound'.type = "user_response"
    /\ strip(inbound'.content) # EmptyText
    /\ answers' = answers + 1

LogShape(messages) ==
    \A i \in DOMAIN messages :
        LET t == messages[i].message_type IN
        /\ t \in {"system", "question", "response", "final_decision"}
        /\ t = "system" => i = 1
        /\ (t = "question" /\ i > 1) =>
              messages[i - 1].message_type \in {"system", "response"}
        /\ t = "response" => (i > 1 /\ messages[i - 1].message_type = "question")
        /\ t = "final_decision" =>
              /\ i > 1
              /\ messages[i - 1].message_type = "response"
              /\ i = Len(messages)

C6_LogShape == LogShape(log)

Emitted(type) ==
    /\ reply # <<>>
    /\ reply[1].type = type

---------------------------------------------------------------------------
(* SpecPeers: two websocket connections open on the same session id.  Each  *)
(* handler is a task of its own with its own AsyncSession and its own       *)
(* InterviewSession object; a handler gives way to the other at the awaits  *)
(* that do I/O (receive_text, the commits, send_text).  The service calls   *)
(* have no such await and run in the step that issues the next commit.      *)

\* the single-connection handler's variables, not used here
tvars ==
    <<state, user_profile, last, conn, session, current_state, reply, inbound,
      starts, answers, faults, retry, db_session, active_connections, tasks, request>>

\* the answer connection c sends
PeerAnswer(c) == IF c = 1 THEN <<"A", "1">> ELSE <<"A", "2">>

\* generator outcomes in which every call succeeds
PeerGens == { gen \in HGens : ~Faulty(gen) }

\* accept, verify_session_with_retry, profile, service, welcome frame
TcConnect(c) ==
    /\ peers[c].pc = "closed"
    /\ db # None
    /\ peers' = [peers EXCEPT ![c] =
                   [@ EXCEPT !.pc = "loop",
                             !.session = db,
                             !.loaded = (db[1].session_state # None),
                             !.response = NoReturn]]
    /\ UNCHANGED <<db, log, tvars>>

\* start_interview read: the service call and save_message(.., "question", ..)
TcBegin(c) ==
    /\ peers[c].pc = "loop"
    /\ peers[c].starts < MaxPeerStarts
    /\ \E gen \in PeerGens :
         \E out \in { IF peers[c].loaded
                      THEN continue_interview("profile", peers[c].session[1].session_state[1],
                                              EmptyText, gen)
                      ELSE begin_interview("profile", gen) } :
            /\ log' = IF out.raised THEN log
                      ELSE save_message(log, "question", out.ret.question)
            /\ peers' = [peers EXCEPT ![c] =
                   [@ EXCEPT !.pc = IF out.raised THEN "loop" ELSE "started",
                             !.starts = @ + 1,
                             !.response = out.ret,
                             !.session = IF out.raised /\ ~peers[c].loaded THEN @
                                         ELSE Some([@[1] EXCEPT
                                                      !.session_state = Some(out.state)])]]
    /\ UNCHANGED <<db, tvars>>

\* session.session_state = response.state; await db.commit(); send the question
TcCommitStart(c) ==
    /\ peers[c].pc = "started"
    /\ db' = Some([db[1] EXCEPT !.session_state = peers[c].session[1].session_state])
    /\ peers' = [peers EXCEPT ![c] = [@ EXCEPT !.pc = "loop"]]
    /\ UNCHANGED <<log, tvars>>

\* user_response read: save_message(.., "response", content)
TcReceiveAnswer(c) ==
    /\ peers[c].pc = "loop"
    /\ peers[c].answers < MaxPeerAnswers
    /\ log' = save_message(log, "response", PeerAnswer(c))
    /\ peers' = [peers EXCEPT ![c] =
                   [@ EXCEPT !.pc = "responded", !.answers = @ + 1]]
    /\ UNCHANGED <<db, tvars>>

\* continue_interview on the handler's own session.session_state, then
\* session.session_state = response.state; await db.commit()
TcAdvance(c) ==
    /\ peers[c].pc = "responded"
    /\ \E gen \in PeerGens :
         \E out \in { continue_interview("profile", StateOrEmpty(peers[c].session[1]),
                                         PeerAnswer(c), gen) } :
            IF out.raised
            THEN /\ peers' = [peers EXCEPT ![c] =
                      [@ EXCEPT !.pc = "loop",
                                !.session = Some([@[1] EXCEPT !.session_state =
                                                    Aliased(@, out)])]]
                 /\ UNCHANGED db
            ELSE /\ peers' = [peers EXCEPT ![c] =
                      [@ EXCEPT !.pc = "advanced",
                                !.response = out.ret,
                                !.session = Some([@[1] EXCEPT !.session_state =
                                                    Some(out.state)])]]
                 /\ db' = Some([db[1] EXCEPT !.session_state = Some(out.state)])
    /\ UNCHANGED <<log, tvars>>

\* save_message of the final decision or of the next question (sent at once)
TcReply(c) ==
    /\ peers[c].pc = "advanced"
    /\ IF peers[c].response.is_complete
       THEN /\ log' = save_message(log, "final_decision", peers[c].response.question)
            /\ peers' = [peers EXCEPT ![c] = [@ EXCEPT !.pc = "final_saved"]]
       ELSE /\ log' = save_message(log, "question", peers[c].response.question)
            /\ peers' = [peers EXCEPT ![c] = [@ EXCEPT !.pc = "loop"]]
    /\ UNCHANGED <<db, tvars>>

\* session.status = "completed"; session.final_outcome = ...; commit; send
TcComplete(c) ==
    /\ peers[c].pc = "final_saved"
    /\ db' = Some(complete_session(db[1], peers[c].response.question))
    /\ peers' = [peers EXCEPT ![c] = [@ EXCEPT !.pc = "loop"]]
    /\ UNCHANGED <<log, tvars>>

PeersNext ==
    \/ start_interview_session
    \/ \E c \in Conns : TcConnect(c)
    \/ \E c \in Conns : TcBegin(c)
    \/ \E c \in Conns : TcCommitStart(c)
    \/ \E c \in Conns : TcReceiveAnswer(c)
    \/ \E c \in Conns : TcAdvance(c)
    \/ \E c \in Conns : TcReply(c)
    \/ \E c \in Conns : TcComplete(c)

SpecPeers == Init /\ [][PeersNext]_vars

\* the handler positions between reading a user_response and its last commit
InTurn == {"responded", "advanced", "final_saved"}

IsPrefix(s, t) ==
    /\ Len(s) <= Len(t)
    /\ SubSeq(t, 1, Len(s)) = s

\* C12 Sequential turns per session: at no time are the handlers of two
\* connections on the session both inside a user_response turn, and no
\* committed turn is lost: every commit of a turn state keeps the transcript
\* entries committed before it.
C12_SequentialTurns ==
    /\ [](Cardinality({ c \in Conns : peers[c].pc \in InTurn }) <= 1)
    /\ [][ (Stored # None /\ Stored' # None) =>
              IsPrefix(Stored[1].transcript, Stored'[1].transcript) ]_vars

---------------------------------------------------------------------------
(* SpecRetry: one connection opens and verify_session_with_retry runs step  *)
(* by step against a store in which the session row becomes visible to the *)
(* connection's reads at some time after the connection opened.  Times are *)
(* microseconds since the connection opened.                               *)

nonretry ==
    <<state, user_profile, last, db, log, conn, session, current_state, reply, inbound,
      starts, answers, faults, peers, db_session, active_connections, tasks, request>>

\* how long one SELECT takes
Latencies == {0, 100000}

\* when an existing row becomes visible to the connection's reads
VisibleAts == {0, 200000, 600000, 1500000}

\* the start endpoint, before the connection opens
RetryCreate ==
    /\ retry.pc = "idle"
    /\ start_interview_session

\* verify_session_with_retry(db, session_id, max_retries, delay=0.5) is entered
RetryCall ==
    /\ retry.pc = "idle"
    /\ conn = "closed"
    /\ \E n \in 1 .. MaxRetries :
         \E v \in (IF db = None THEN {Never} ELSE VisibleAts) :
            retry' = [RetryIdle EXCEPT !.pc = "lookup", !.max_retries = n, !.visible_at = v]
    /\ UNCHANGED nonretry

\* one pass of the for loop up to the sleep: the SELECT, "if session: return
\* session", and past the last attempt "return None"
RetryLookup ==
    /\ retry.pc = "lookup"
    /\ \E latency \in Latencies :
         LET now == retry.clock + latency
             found == /\ db # None
                      /\ retry.visible_at # Never
                      /\ retry.visible_at <= now
         IN  retry' =
               IF found
               THEN [retry EXCEPT !.clock = now, !.hits = Append(@, TRUE),
                                  !.result = "found", !.pc = "done"]
               ELSE IF retry.attempt < retry.max_retries - 1
               THEN [retry EXCEPT !.clock = now, !.hits = Append(@, FALSE),
                                  !.pc = "sleep"]
               ELSE [retry EXCEPT !.clock = now, !.hits = Append(@, FALSE),
                                  !.attempt = @ + 1,
                                  !.result = "none", !.pc = "done"]
    /\ UNCHANGED nonretry

\* await asyncio.sleep(delay); delay *= 1.5; next attempt
RetrySleep ==
    /\ retry.pc = "sleep"
    /\ retry' = [retry EXCEPT !.clock = slept(retry.clock, retry.delay),
                              !.waits = Append(@, retry.delay),
                              !.delay = next_delay(@),
                              !.attempt = @ + 1,
                              !.pc = "lookup"]
    /\ UNCHANGED nonretry

\* interview_websocket goes on with what verify_session_with_retry returned
RetryConnect ==
    /\ retry.pc = "done"
    /\ conn = "closed"
    /\ inbound' = NoFrame
    /\ last' = NoCall
    /\ Resolved(IF retry.result = "found" THEN db ELSE None)
    /\ retry' = [retry EXCEPT !.pc = "returned"]
    /\ UNCHANGED <<state, db, log, starts, answers, faults, peers, active_connections, tasks,
                   request>>

RetryNext ==
    \/ RetryCreate
    \/ RetryCall
    \/ RetryLookup
    \/ RetrySleep
    \/ RetryConnect

SpecRetry == Init /\ [][RetryNext]_vars

\* 0.5 s, 0.75 s, 1.125 s
ExpectedWaits == <<500000, 750000, 1125000>>

Returned == retry.pc \in {"done", "returned"}

\* C13 Resolve-with-retry bounds: the function looks the session up at most
\* max_retries times; a lookup that finds the row is the last one and is
\* followed by no wait; the result is not-found exactly when max_retries
\* lookups have all missed; the waits are 0.5 s, 0.75 s, 1.125 s in this
\* order, one fewer than the lookups; and while the function runs neither the
\* session row nor the log changes.
C13_RetryBounds ==
    /\ [](retry.pc # "idle" =>
            /\ Len(retry.hits) <= retry.max_retries
            /\ \A i \in DOMAIN retry.hits :
                  retry.hits[i] => /\ i = Len(retry.hits)
                                   /\ retry.result = "found"
                                   /\ Returned
            /\ retry.result = "found" =>
                  /\ retry.hits # <<>>
                  /\ retry.hits[Len(retry.hits)]
                  /\ Len(retry.waits) = Len(retry.hits) - 1
            /\ (retry.result = "none") <=>
                  /\ Returned
                  /\ Len(retry.hits) = retry.max_retries
                  /\ \A i \in DOMAIN retry.hits : ~retry.hits[i]
            /\ Len(retry.waits) < retry.max_retries
            /\ retry.waits = SubSeq(ExpectedWaits, 1, Len(retry.waits)))
    /\ [][ retry.pc \in {"lookup", "sleep"} => (db' = db /\ log' = log) ]_vars

\* the row was found by the fourth of four lookups, after all three waits
C13_Witness ==
    /\ retry.result = "found"
    /\ retry.hits = <<FALSE, FALSE, FALSE, TRUE>>
    /\ retry.waits = ExpectedWaits

\* C14 Resolve-with-retry absorbs the creation race: with the default three
\* attempts, a row that becomes visible 200 ms after the connection opened is
\* missed by the first lookup and found by the second, after the 0.5 s wait,
\* and the handler sends the welcome frame; a session that never exists is
\* missed by all three lookups and the connection is closed with code 4004.
C14_AbsorbsCreationRace ==
    (retry.max_retries = DefaultRetries /\ retry.pc = "returned") =>
        /\ retry.visible_at = 200000 =>
              /\ retry.hits = <<FALSE, TRUE>>
              /\ retry.waits = <<BaseDelay>>
              /\ conn = "open"
              /\ reply = <<Frame("system", ReadyText)>>
        /\ retry.visible_at = Never =>
              /\ retry.hits = <<FALSE, FALSE, FALSE>>
              /\ conn = "closed"
              /\ reply = <<Frame("error", NotFoundText), Frame("close", NotFoundCode)>>

\* the race was absorbed by the second lookup
C14_Witness ==
    /\ retry.max_retries = DefaultRetries
    /\ retry.pc = "returned"
    /\ retry.visible_at = 200000
    /\ retry.hits = <<FALSE, TRUE>>
    /\ conn = "open"

---------------------------------------------------------------------------
(* Claims about the frames of the websocket protocol, checked under Spec *)

\* what the client of a connection to a missing session is sent
NotFoundReply == <<Frame("error", NotFoundText), Frame("close", NotFoundCode)>>

\* C15 Not found at connection open: while the session does not exist, a
\* connection attempt is answered with the error frame and close code 4004 and
\* nothing else: no system frame is sent, the handler does not reach its
\* message loop and reads no frame, no service operation is called, the
\* handler holds no session, and the store stays empty.
C15_NotFoundAtOpen ==
    db = None =>
        /\ reply \in {<<>>, NotFoundReply}
        /\ \A i \in DOMAIN reply : reply[i].type # "system"
        /\ conn = "closed"
        /\ inbound = NoFrame
        /\ last = NoCall
        /\ ~user_profile
        /\ session = None
        /\ current_state = None
        /\ log = <<>>

\* a connection was opened on a session id that does not exist
C15_Witness ==
    /\ db = None
    /\ reply = NotFoundReply
    /\ conn = "closed"

\* the frame just read is a start_interview
StartRead ==
    /\ inbound'.type = "start_interview"
    /\ starts' = starts + 1

C19_AnswerBeforeQuestion ==
    [][ (AnswerRead /\ Stored = None) =>
            /\ reply' # <<>>
            /\ reply'[1].type = "error"
            /\ conn' = "open"
            /\ log' = log
            /\ db' = db ]_vars

\* the contents a client sends that are empty or only whitespace
BlankContents == { EmptyText, <<" ", " ">> }

\* C20 Empty input rejection: a user_response whose content is empty or only
\* whitespace is answered with the error frame "Please provide a response",
\* no service operation is called (so no generator call is made), and the log,
\* the stored row, the handler's session (transcript and current question)
\* and the open connection are as before.
C20_EmptyInputRejected ==
    [][ (inbound'.type = "user_response" /\ inbound'.content \in BlankContents) =>
            /\ reply' = <<Frame("error", ProvideText)>>
            /\ last' = NoCall
            /\ log' = log
            /\ db' = db
            /\ session' = session
            /\ current_state' = current_state
            /\ answers' = answers
            /\ conn' = "open" ]_vars

\* a whitespace-only answer was rejected while a question was open
C20_Witness ==
    /\ inbound = Frame("user_response", <<" ", " ">>)
    /\ reply = <<Frame("error", ProvideText)>>
    /\ conn = "open"
    /\ Stored # None
    /\ Stored[1].current_question = <<"Q", "2">>
    /\ StoredTranscriptLen = 1

---------------------------------------------------------------------------
(* Claims about frames that are not answers, and about the ways a handler  *)
(* ends *)

\* the text just read is not a well-formed message
MalformedRead ==
    inbound'.form \in {"not_json", "not_object", "no_type", "no_content", "content_not_text"}

\* C21 Malformed frame: every text that is not a well-formed message (not
\* JSON, JSON that is no object, an object without type, a user_response
\* without content or with a content that is no text) is answered with one
\* error frame, changes neither the log nor the stored row nor the handler's
\* session, consumes no turn, and leaves the connection open.
C21_MalformedFrame ==
    [][ MalformedRead =>
            /\ Len(reply') = 1
            /\ reply'[1].type = "error"
            /\ log' = log
            /\ db' = db
            /\ session' = session
            /\ answers' = answers
            /\ conn' = "open" ]_vars

\* C22 ping: a ping is answered with exactly one pong frame and nothing else
\* happens: no message is appended, the stored row (turn state, status, final
\* outcome) and the handler's session are unchanged, no service operation is
\* called and the connection stays open.
C22_Ping ==
    [][ inbound'.type = "ping" =>
            /\ reply' = <<Frame("pong", PongText)>>
            /\ log' = log
            /\ db' = db
            /\ session' = session
            /\ current_state' = current_state
            /\ last' = NoCall
            /\ conn' = "open" ]_vars

\* a ping was answered on a session that is completed
C22_Witness ==
    /\ inbound.type = "ping"
    /\ reply = <<Frame("pong", PongText)>>
    /\ db[1].status = "completed"
    /\ conn = "open"

\* C23 Unknown message type: a message whose type is none of start_interview,
\* user_response, ping is answered with one error frame whose text contains
\* that type; the connection stays open and the log, the stored row and the
\* handler's session are unchanged.
C23_UnknownType ==
    [][ (/\ inbound'.form = "object"
         /\ inbound'.type \notin {"start_interview", "user_response", "ping", "none"}) =>
            /\ Len(reply') = 1
            /\ reply'[1].type = "error"
            /\ inbound'.type \in Range(reply'[1].content)
            /\ log' = log
            /\ db' = db
            /\ session' = session
            /\ last' = NoCall
            /\ conn' = "open" ]_vars

\* a message of type "bye" was refused while a question was open
C23_Witness ==
    /\ inbound.type = "bye"
    /\ reply # <<>>
    /\ reply[1].type = "error"
    /\ "bye" \in Range(reply[1].content)
    /\ Stored # None
    /\ conn = "open"

\* C24 Idle timeout: the handler gives up waiting only after 300 s of silence;
\* it then sends the timeout notice and leaves the message loop, and the log
\* and the stored row (status, turn state, final outcome) are as before.
C24_IdleTimeout ==
    [][ inbound'.form = "silence" =>
            /\ inbound'.waited >= IdleWindow
            /\ conn = "open"
            /\ conn' = "closed"
            /\ reply' = <<Frame("system", TimeoutText)>>
            /\ log' = log
            /\ db' = db ]_vars

\* a session that awaits an answer timed out and is still active
C24_Witness ==
    /\ inbound.form = "silence"
    /\ conn = "closed"
    /\ reply = <<Frame("system", TimeoutText)>>
    /\ db[1].status = "active"
    /\ StoredTranscriptLen = 1

\* C25 Connection survives failures: a handler in its message loop leaves it
\* only when the client disconnects or the idle timeout expires.
C25_LeavesLoopOnlyOnDisconnectOrTimeout ==
    [][ (conn = "open" /\ conn' = "closed") =>
            \/ inbound' = NoFrame
            \/ inbound'.form = "silence" ]_vars

\* C26 Cleanup on every exit path: whenever no handler is running, the
\* AsyncSession of the handler that ran last is closed and the connection
\* registry holds no entry; and the step in which a handler ends leaves the
\* log and the stored row as they are.
C26_Cleanup ==
    /\ [](conn = "closed" =>
            /\ \/ db_session = "closed"
               \/ db_session = "none" /\ reply = <<>>
            /\ active_connections = EmptyDict)
    /\ [][ (conn = "open" /\ conn' = "closed") => (db' = db /\ log' = log) ]_vars

\* a handler ended on an unhandled error after a completed turn
C26_Witness ==
    /\ conn = "closed"
    /\ db_session = "closed"
    /\ reply = <<Frame("error", UnexpectedText)>>
    /\ StoredTranscriptLen = 1
    /\ Count(log, "response") = 1

\* the handler has sent its welcome frame and has read nothing yet
JustConnected ==
    /\ conn = "open"
    /\ inbound = NoFrame
    /\ reply = <<Frame("system", ReadyText)>>

---------------------------------------------------------------------------
(* The start endpoint on its own: one request, remembered with its answer *)

\* the HTTP status the start endpoint answers with (lines 85-89, 98-102; 200
\* is FastAPI's default for the returned response)
start_status(profile, work_experiences, agent_type) ==
    IF profile = None THEN 400
    ELSE IF ~requirements_gate(
                check_agent_profile_requirements(profile[1], work_experiences, agent_type))
    THEN 400
    ELSE 200

\* the first request to POST /interview/start
GateStart ==
    /\ db = None
    /\ request = NoRequest
    /\ \E profile \in {None} \cup { Some(p) : p \in Profiles },
          work_experiences \in WorkExperiences,
          agent_type \in AgentTypes :
         /\ start_endpoint(profile, work_experiences, agent_type)
         /\ request' = [ profile |-> profile, work_experiences |-> work_experiences,
                         agent_type |-> agent_type,
                         status_code |-> start_status(profile, work_experiences, agent_type) ]
    /\ UNCHANGED <<state, user_profile, last, conn, session, current_state, reply,
                   inbound, starts, answers, faults, peers, retry, db_session,
                   active_connections, tasks>>

GateNext == GateStart

SpecGate == Init /\ [][GateNext]_vars

\* the request the start endpoint handled is eligible
Eligible ==
    /\ request.profile # None
    /\ check_agent_profile_requirements(request.profile[1], request.work_experiences,
                                        request.agent_type).requirements_met

\* C28 Eligibility gate: a session exists only after a request whose owner
\* has a profile that meets the requirements of the requested agent type; a
\* request without a profile or with a missing requirement is rejected and
\* leaves no session row and no message.
C28_EligibilityGate ==
    /\ db # None => (request # NoRequest /\ Eligible)
    /\ (request # NoRequest /\ ~Eligible) =>
            /\ request.status_code = 400
            /\ db = None
            /\ log = <<>>

\* a document_helper request was rejected for a user with a profile that
\* lacks only the work experience, and nothing was stored
C28_Witness ==
    /\ request.agent_type = "document_helper"
    /\ request.profile # None
    /\ request.profile[1].target_field # None
    /\ request.profile[1].target_degree # None
    /\ request.work_experiences = <<>>
    /\ request.status_code = 400
    /\ db = None
    /\ log = <<>>

---------------------------------------------------------------------------
(* The scenario of one interview that runs to the ceiling *)

\* the handler has just run a turn of an interview that was begun once and
\* held before entries transcript entries
TurnAt(before) ==
    /\ inbound.type = "user_response"
    /\ last.op = "process_response"
    /\ last.pre = before
    /\ ~last.was_done
    /\ starts = 1

---------------------------------------------------------------------------
(* The stored form of a turn state, checked under SpecService *)

\* contents an utterance may have
UtteranceTexts == { EmptyText, <<"Q", "1">>, <<" ", "Q", "2", "\n">>, <<"A", "1">> }

\* the utterances a turn state holds: questions asked and answers given
Utterances ==
    { AIMessage(t) : t \in UtteranceTexts } \cup { HumanMessage(t) : t \in UtteranceTexts }

\* C30 Turn-state round trip: every ai or human utterance is the same
\* utterance after _serialize_message and _deserialize_message; and for the
\* turn state the service holds, serializing the utterances loaded from the
\* stored dict gives the stored sequence again, while transcript, current
\* question, summary, outcome and done are loaded as they are stored.
C30_RoundTrip ==
    /\ \A m \in Utterances : _deserialize_message(_serialize_message(m)) = m
    /\ state # None =>
          LET loaded == state_for_check(state[1]) IN
          /\ Len(loaded.messages) = Len(state[1].messages)
          /\ \A i \in DOMAIN loaded.messages :
                /\ loaded.messages[i] \in
                      { AIMessage(state[1].messages[i].content),
                        HumanMessage(state[1].messages[i].content) }
                /\ _serialize_message(loaded.messages[i]) = state[1].messages[i]
          /\ loaded.transcript = state[1].transcript
          /\ loaded.current_question = state[1].current_question
          /\ loaded.summary = state[1].summary
          /\ loaded.outcome = state[1].outcome
          /\ loaded.done = state[1].done

\* a finished turn state with questions and answers in its utterances
C30_Witness ==
    /\ state # None
    /\ state[1].done
    /\ state[1].outcome # EmptyText
    /\ Len(state[1].messages) >= 6
    /\ \E i, j \in DOMAIN state[1].messages :
          /\ state[1].messages[i].type = "ai"
          /\ state[1].messages[j].type = "human"

---------------------------------------------------------------------------
(* Claims about the transcript and the terminating turn *)

\* the exchanges the log shows as completed in an interview begun once: every
\* question after the first and every final decision closed one
CompletedExchanges(messages) ==
    Count(messages, "question") + Count(messages, "final_decision") - 1

---------------------------------------------------------------------------
(* SpecRegistry: handler tasks that register with the ConnectionManager.     *)
(* A websocket is named by the handler task that owns it.                    *)

\* frames a websocket is sent through the manager
MaxRegistryFrames == 1

\* await manager.connect(websocket, session_id), up to "await websocket.accept()"
RegAccept(h, session_id) ==
    /\ tasks[h].pc = "idle"
    /\ tasks' = [tasks EXCEPT ![h] = [@ EXCEPT !.pc = "accepted", !.session_id = session_id]]
    /\ UNCHANGED active_connections

\* manager.connect after the await: self.active_connections[session_id] = websocket
RegConnect(h) ==
    /\ tasks[h].pc = "accepted"
    /\ active_connections' =
          [sid \in DOMAIN active_connections \cup {tasks[h].session_id} |->
              IF sid = tasks[h].session_id THEN h ELSE active_connections[sid]]
    /\ tasks' = [tasks EXCEPT ![h] = [@ EXCEPT !.pc = "live"]]

\* manager.disconnect(session_id) by a handler that then ends
RegDisconnect(h) ==
    /\ tasks[h].pc = "live"
    /\ active_connections' =
          [sid \in DOMAIN active_connections \ {tasks[h].session_id} |->
              active_connections[sid]]
    /\ tasks' = [tasks EXCEPT ![h] = [@ EXCEPT !.pc = "ended"]]

\* await manager.send_message(session_id, message)
RegSendMessage(session_id) ==
    /\ session_id \in DOMAIN active_connections
    /\ tasks[active_connections[session_id]].frames < MaxRegistryFrames
    /\ tasks' = [tasks EXCEPT ![active_connections[session_id]] =
                    [@ EXCEPT !.frames = @ + 1,
                              !.late = (tasks[active_connections[session_id]].pc = "ended")]]
    /\ UNCHANGED active_connections

nonregistry ==
    <<state, user_profile, last, db, log, conn, session, current_state, reply, inbound,
      starts, answers, faults, peers, retry, db_session, request>>

RegistryAccept ==
    /\ \E h \in Handlers, session_id \in SessionIds : RegAccept(h, session_id)
    /\ UNCHANGED nonregistry

RegistryConnect ==
    /\ \E h \in Handlers : RegConnect(h)
    /\ UNCHANGED nonregistry

RegistryDisconnect ==
    /\ \E h \in Handlers : RegDisconnect(h)
    /\ UNCHANGED nonregistry

RegistrySend ==
    /\ \E session_id \in SessionIds : RegSendMessage(session_id)
    /\ UNCHANGED nonregistry

RegistryNext ==
    \/ RegistryAccept
    \/ RegistryConnect
    \/ RegistryDisconnect
    \/ RegistrySend

SpecRegistry == Init /\ [][RegistryNext]_vars

\* C32 Connection registry safety: every entry of the registry is the
\* websocket of a live handler opened on that session id; the step in which a
\* handler disconnects and ends leaves the entry of every other live handler
\* in place; and no frame is sent to the websocket of a handler that ended.
C32_RegistrySafety ==
    /\ [](\A sid \in DOMAIN active_connections :
            /\ tasks[active_connections[sid]].pc = "live"
            /\ tasks[active_connections[sid]].session_id = sid)
    /\ [](\A h \in Handlers : ~tasks[h].late)
    /\ [][ \A h \in Handlers :
             (tasks[h].pc = "live" /\ tasks'[h].pc = "ended") =>
                \A sid \in DOMAIN active_connections :
                    active_connections[sid] # h =>
                       /\ sid \in DOMAIN active_connections'
                       /\ active_connections'[sid] = active_connections[sid] ]_vars

---------------------------------------------------------------------------
(* The continuation check as a whole, checked under SpecService *)

\* the summary call was made in the most recent turn and raised
SummaryCallRaised ==
    /\ "summary" \in Range(last.calls)
    /\ last.summary_fails

\* C33 Fail-open covers the whole continuation check: at transcript length 3
\* or 4, when the summary call or the yes/no call of the continuation check
\* raises, the check answers continue: the turn is not terminated, and it
\* returns the next question unless the question generation fails.
C33_FailOpenWholeCheck ==
    \A n \in MinQuestions .. HardLimit - 1 :
        (Advanced(n) /\ (SummaryCallRaised \/ VerdictCallRaised)) =>
            /\ last.check = "continue"
            /\ ~last.ret.is_complete
            /\ ~last.question_fails => ~last.raised

---------------------------------------------------------------------------
(* SpecRun: one connection of a client that starts the interview and then    *)
(* answers every question, with a generator that never fails                 *)

\* generator outcomes without a failure, with every verdict text
RunGens == { gen \in Gens : ~Faulty(gen) }

\* the client sends start_interview once
RunStart ==
    /\ conn = "open"
    /\ starts = 0
    /\ inbound' = Frame("start_interview", EmptyText)
    /\ \E gen \in RunGens : OnStartInterview(gen)
    /\ starts' = starts + 1
    /\ UNCHANGED <<state, conn, answers, faults, peers, retry, db_session,
                   active_connections, tasks, request>>

\* the client answers the question it was sent
RunAnswer ==
    /\ conn = "open"
    /\ starts = 1
    /\ Emitted("question")
    /\ answers < MaxAnswers
    /\ \E answer \in Answers, gen \in RunGens :
         /\ inbound' = Frame("user_response", answer)
         /\ OnUserResponse(answer, gen)
    /\ answers' = answers + 1
    /\ UNCHANGED <<state, conn, starts, faults, peers, retry, db_session,
                   active_connections, tasks, request>>

RunNext ==
    \/ start_interview_session
    \/ Connect
    \/ RunStart
    \/ RunAnswer

\* a client that can answer does answer
SpecRun == Init /\ [][RunNext]_vars /\ WF_vars(RunAnswer)

\* the interview has been started: its first question was sent
Started == starts = 1 /\ Stored # None

\* the session is completed and the final decision was sent
Terminated ==
    /\ db # None
    /\ db[1].status = "completed"
    /\ Emitted("final_decision")

---------------------------------------------------------------------------
(* The terminating turn, checked under Spec *)

\* the turn just run ended an interview that was not done before it
TerminatingTurn ==
    /\ inbound.type = "user_response"
    /\ last.op = "process_response"
    /\ ~last.raised
    /\ last.ret.is_complete
    /\ ~last.was_done

---------------------------------------------------------------------------
(* Request and reply, checked under SpecFrames *)

\* the frame types the handler may answer a text with
ReplyTypes(frame) ==
    IF frame.form = "not_json" THEN {"error"}
    ELSE IF frame.type = "start_interview" THEN {"question", "error"}
    ELSE IF frame.type = "user_response" THEN {"question", "final_decision", "error"}
    ELSE IF frame.type = "ping" THEN {"pong"}
    ELSE {"error"}

\* the payload frames among what was sent (the close handshake is none)
Payloads(frames) == SelectSeq(frames, LAMBDA f : f.type # "close")

\* a text from the client is read in this step
TextRead ==
    /\ conn = "open"
    /\ inbound' # NoFrame
    /\ inbound'.form # "silence"

\* C36 Strict request/reply: opening a connection sends one payload frame (the
\* welcome system frame, or an error when the session or profile is missing);
\* every text read from the client is answered, in the step that handles it
\* and so before the next text is read, with exactly one frame of a type
\* allowed for it; the only other frame a handler sends is the idle-timeout
\* notice; a client disconnect is answered with nothing.
C36_StrictRequestReply ==
    [][ /\ (conn = "closed" /\ db' = db) =>
              /\ Len(Payloads(reply')) = 1
              /\ Payloads(reply')[1].type \in {"system", "error"}
              /\ conn' = "open" => reply' = <<Frame("system", ReadyText)>>
        /\ TextRead =>
              /\ Len(reply') = 1
              /\ reply'[1].type \in ReplyTypes(inbound')
        /\ (conn = "open" /\ inbound' = NoFrame) => reply' = <<>>
        /\ (conn = "open" /\ inbound'.form = "silence") =>
              reply' = <<Frame("system", TimeoutText)>> ]_vars

\* a final decision was the one reply to the third answer
C36_Witness ==
    /\ conn = "open"
    /\ inbound.type = "user_response"
    /\ Len(reply) = 1
    /\ reply[1].type = "final_decision"
    /\ Count(log, "response") = 3

---------------------------------------------------------------------------
(* The utterances of a turn state, checked under SpecService *)

\* the number of utterances the state should hold for its transcript
UtteranceCount(state_dict) ==
    Len(state_dict.messages) =
        IF state_dict.done THEN 2 * Len(state_dict.transcript)
        ELSE 1 + 2 * Len(state_dict.transcript)

\* C37 Utterance-count invariant: a call of start_interview or
\* process_response that returns, made on no state or on a state with
\* 1 + 2 * len(transcript) utterances (not done) or 2 * len(transcript)
\* utterances (done), leaves a state for which the same holds.
C37_UtteranceCount ==
    [][ ((state = None \/ UtteranceCount(state[1])) /\ last'.op # "none" /\ ~last'.raised) =>
            (state' # None /\ UtteranceCount(state'[1])) ]_vars

---------------------------------------------------------------------------
(* SpecCreate: the first request of an eligible user to the start endpoint,  *)
(* with a store whose calls may fail                                         *)

CreateStart ==
    /\ db = None
    /\ request = NoRequest
    /\ \E p \in Profiles, work_experiences \in WorkExperiences, agent_type \in AgentTypes,
          fails \in CreateFaults :
         /\ requirements_gate(check_agent_profile_requirements(p, work_experiences, agent_type))
         /\ create_session(fails)
         /\ request' = [ profile |-> Some(p), work_experiences |-> work_experiences,
                         agent_type |-> agent_type, status_code |-> create_status(fails) ]
    /\ UNCHANGED <<state, user_profile, last, conn, session, current_state, reply,
                   inbound, starts, answers, faults, peers, retry, db_session,
                   active_connections, tasks>>

CreateNext == CreateStart

SpecCreate == Init /\ [][CreateNext]_vars

\* C38 Session creation is all-or-nothing: once the start endpoint has
\* answered, with success or with an error, the session row is stored exactly
\* when its welcome system message is stored as the first message of the log.
C38_CreationAllOrNothing ==
    request # NoRequest =>
        (db # None <=> (log # <<>> /\ log[1] = Message("system", WelcomeText)))

---------------------------------------------------------------------------
(* The requirement check as a function, checked under SpecGate on the        *)
(* request the start endpoint handled                                        *)

\* the label of field when the profile has no value for it
LabelIfNull(profile, field, label) ==
    IF profile[field] = None THEN <<label>> ELSE <<>>

\* C39 Requirement check result: requirements_met is true exactly when
\* missing_requirements is empty; for visa_assistant the missing list holds
\* the label of preferred_countries and of target_degree, each exactly when
\* the column is null, and nothing else; for exam_planner it holds the one
\* label "At least one test score" exactly when all three scores are null;
\* for an agent type outside the table nothing is missing.
C39_RequirementCheck ==
    (request # NoRequest /\ request.profile # None) =>
        LET profile == request.profile[1]
            result == check_agent_profile_requirements(profile, request.work_experiences,
                                                       request.agent_type)
        IN
        /\ result.requirements_met <=> (result.missing_requirements = <<>>)
        /\ request.agent_type = "visa_assistant" =>
              result.missing_requirements =
                  LabelIfNull(profile, "preferred_countries", "Preferred Countries")
                  \o LabelIfNull(profile, "target_degree", "Target Degree")
        /\ request.agent_type = "exam_planner" =>
              result.missing_requirements =
                  IF /\ profile.gre_score = None
                     /\ profile.toefl_score = None
                     /\ profile.ielts_score = None
                  THEN <<"At least one test score">>
                  ELSE <<>>
        /\ request.agent_type = "other" =>
              /\ result.missing_requirements = <<>>
              /\ result.requirements_met

=============================================================================
